---- MODULE Spec2Model ----
(***************************************************************************)
(* Model of the fraud-transaction producer:                                *)
(*   src/producer/kinesis_producer.py  (KinesisProducer, the delivery      *)
(*                                      client)                            *)
(*   src/producer/main.py              (run_producer, the producer loop,   *)
(*                                      and signal_handler)                *)
(*   src/producer/data_generator.py    (TransactionGenerator)              *)
(*   src/scripts/setup_localstack.py   (create_kinesis_stream, the setup   *)
(*                                      script's create-and-wait)          *)
(* The Kinesis service is the environment: its stream status, the answers  *)
(* it gives to describe_stream / create_stream / put_records, and what it  *)
(* has accepted.                                                           *)
(***************************************************************************)
EXTENDS Integers, Sequences, FiniteSets, TLC

VARIABLES
    \* ---- the log service (environment) ----
    streamStatus,        \* "NOT_FOUND" | "CREATING" | "ACTIVE"
    createRequests,      \* CreateStream requests the service has received
    failures,            \* PutRecords requests the service has failed or partly rejected
    accepted,            \* records the service has accepted
    \* ---- KinesisProducer ----
    metrics,             \* self.metrics
    stack,               \* activation records of put_records_batch (the retry recursion)
    batchResult,         \* what the outermost put_records_batch gave its caller
    cs,                  \* position inside create_stream_if_not_exists
    lastVerify,          \* latest describe_stream answer and verify_stream_exists outcome
    \* ---- run_producer ----
    pc,
    num_transactions,
    batch_size,
    total_sent,
    batch_count,
    transactions,
    shutdown_requested,
    handlersRegistered,
    sendsAfterSignal,    \* put_records_batch calls run_producer started after a signal
    reports,             \* "Producer finished" events emitted
    closed,              \* producer.close() has run
    \* ---- a direct user of the client ----
    apiCalls,            \* calls made so far
    createRaised,        \* a create_stream_if_not_exists call of theirs has raised
    \* ---- create_kinesis_stream (setup script) ----
    setupPc,             \* "off" | "check" | "create" | "poll" | "done"
    attempt,             \* the loop variable of line 82
    pollQueries,         \* describe_stream calls made by the wait loop
    setupResult,         \* what create_kinesis_stream returned
    \* ---- a user of the client's single-record and metrics calls ----
    lastCall,            \* the method called last
    putResult,           \* what the last put_record gave its caller
    snapshot,            \* the dictionary the last get_metrics returned
    \* ---- TransactionGenerator ----
    generators,          \* the TransactionGenerator objects constructed so far
    rng,                 \* the process's random and Faker generators
    genLog,              \* per generator, the outcomes of its generate_transaction calls
    genResult,           \* the last call on the generator class and its outcome
    \* ---- a caller of _handle_failed_records ----
    handled              \* the arguments and the outcome of the call

svcVars    == <<streamStatus, createRequests, failures, accepted>>
clientVars == <<metrics, stack, batchResult, cs, lastVerify>>
setupVars  == <<setupPc, attempt, pollQueries, setupResult>>
callVars   == <<lastCall, putResult, snapshot>>
genVars    == <<generators, rng, genLog, genResult>>
retryVars  == <<handled>>
extVars    == <<setupVars, callVars, genVars, retryVars>>
mainVars   == <<pc, num_transactions, batch_size, total_sent, batch_count, transactions,
                shutdown_requested, handlersRegistered, sendsAfterSignal,
                reports, closed, apiCalls, createRaised, extVars>>
apiVars    == <<apiCalls, createRaised, extVars>>
vars       == <<svcVars, clientVars, mainVars>>

(***************************************************************************)
(* Bounds of the model.                                                    *)
(***************************************************************************)
MaxTarget == 2          \* num_transactions ranges over 0..MaxTarget
MaxBatch == 2           \* config.producer.batch_size ranges over 0..MaxBatch
MaxIterations == 2      \* iterations of the loop of run_producer in one behaviour
MaxApiBatch == 2        \* longest list a direct caller hands to put_records_batch
MaxFailures == 4        \* PutRecords requests the service fails or partly rejects;
                        \* beyond them it accepts every record of every request
MaxApiCalls == 2        \* calls a direct user of the client makes in one behaviour
MaxMetricsCalls == 3    \* calls a user of put_record and the metrics makes
MaxMetricsBatch == 1    \* longest list that user hands to put_records_batch
MaxPool == 1            \* num_merchants and num_customers range over 0..MaxPool
MaxGenCalls == 2        \* calls a user of TransactionGenerator makes
MaxBatchArg == 1        \* generate_batch is called with -1..MaxBatchArg
MaxStatsList == 3       \* longest list handed to get_fraud_statistics
MaxRetryList == 2       \* longest list handed to _handle_failed_records

(***************************************************************************)
(* Program constants.                                                      *)
(***************************************************************************)
max_retries == 3        \* KinesisProducer.__init__(max_retries=3)
max_attempts == 30      \* create_kinesis_stream, setup_localstack.py line 81

None == "None"

\* No call of put_records_batch has ended yet / the value it returned / it raised.
NoResult == [status |-> "none", successful |-> 0, failed |-> 0]
Returned(result) ==
    [status |-> "returned", successful |-> result.successful, failed |-> result.failed]
Raised == [status |-> "raised", successful |-> 0, failed |-> 0]

\* self.metrics as __init__ and reset_metrics build it.
ZeroMetrics == [total_records_sent |-> 0, total_records_failed |-> 0,
                total_batches_sent |-> 0, total_bytes_sent |-> 0]

\* put_record has not been called yet; requests is the number of client.put_record
\* requests the call made.
NoPutResult == [status |-> "none", requests |-> 0]

\* get_metrics has not been called yet.  A returned dictionary is either an object
\* of its own (value) or the very object self.metrics refers to (alias).
NoSnapshot == [taken |-> FALSE, alias |-> FALSE, value |-> ZeroMetrics]

\* _handle_failed_records has not been called yet.  response is its argument
\* response_records, one entry per record: TRUE for an entry with an ErrorCode;
\* resubmissions is the number of put_records_batch calls it made.
NotHandled == [called |-> FALSE, response |-> <<>>, failed_records |-> <<>>,
               resubmissions |-> 0]

\* verify_stream_exists has not been called yet.
NoVerify == [answer  |-> [kind |-> "none", code |-> "none"],
             outcome |-> [raised |-> None, value |-> FALSE]]

\* Payload classes of a record: what matters of its content is whether its JSON
\* text is pure ASCII.  Two records of the same class stand for equal content.
Contents == {"ascii", "non_ascii"}

\* What TransactionGenerator produces: Faker() in its default locale and fixed
\* ASCII category, card and currency strings.
GeneratedContents == {"ascii"}

\* The payload class of a generated transaction.
PayloadClass(t) == CHOOSE c \in GeneratedContents : TRUE

\* len(json.dumps(record, ensure_ascii=False).encode("utf-8")): the bytes handed to
\* the service (an ASCII letter is 1 byte, an accented letter is 2).
Utf8Len(r) == IF r = "ascii" THEN 1 ELSE 2

\* len(json.dumps(record).encode("utf-8")): non-ASCII text is escaped to \\uXXXX,
\* 6 bytes.
EscapedLen(r) == IF r = "ascii" THEN 1 ELSE 6

RECURSIVE SumOver(_, _)
SumOver(s, i) == IF i > Len(s) THEN 0 ELSE EscapedLen(s[i]) + SumOver(s, i + 1)

\* sum(len(json.dumps(r).encode("utf-8")) for r in records)
TotalBytes(records) == SumOver(records, 1)

SeqsUpTo(S, n) == UNION {[1..k -> S] : k \in 0..n}

(***************************************************************************)
(* The service's answers.                                                  *)
(***************************************************************************)
\* describe_stream: the status, ResourceNotFoundException for a stream that does
\* not exist, or (at any time) another service error or a transport error.
DescribeAnswers(status) ==
    (IF status = "NOT_FOUND"
        THEN {[kind |-> "ClientError", code |-> "ResourceNotFoundException"]}
        ELSE {[kind |-> "status", code |-> status]})
    \cup {[kind |-> "ClientError", code |-> "LimitExceededException"],
          [kind |-> "BotoCoreError", code |-> "EndpointConnectionError"]}

\* Exceptions put_records can raise.
PutErrors == {"ClientError", "BotoCoreError"}

\* Number of response entries that carry an ErrorCode.
RECURSIVE CountErrors(_, _)
CountErrors(errs, i) ==
    IF i > Len(errs) THEN 0 ELSE (IF errs[i] THEN 1 ELSE 0) + CountErrors(errs, i + 1)

(***************************************************************************)
(* KinesisProducer.verify_stream_exists                                    *)
(***************************************************************************)
\* Mutant: any status counts as "the stream exists".
VerifyStreamExistsAnyStatus(answer) ==
    IF answer.kind = "status"
        THEN [raised |-> None, value |-> TRUE]
    ELSE IF answer.kind = "ClientError" /\ answer.code = "ResourceNotFoundException"
        THEN [raised |-> None, value |-> FALSE]
    ELSE [raised |-> answer.code, value |-> FALSE]

VerifyStreamExists(answer) ==
    IF answer.kind = "status"
        THEN [raised |-> None, value |-> (answer.code = "ACTIVE")]
    ELSE IF answer.kind = "ClientError" /\ answer.code = "ResourceNotFoundException"
        THEN [raised |-> None, value |-> FALSE]
    ELSE [raised |-> answer.code, value |-> FALSE]

(***************************************************************************)
(* KinesisProducer.create_stream_if_not_exists, one action per service     *)
(* interaction.  cs: "idle" | "verify" | "create" | "wait" | "returned" |  *)
(* "raised".                                                               *)
(***************************************************************************)
\* create_stream: accepted for a stream that does not exist, refused with
\* ResourceInUseException for one that does (in any status); or another error.
CreateAnswers(status) ==
    (IF status = "NOT_FOUND" THEN {"created"} ELSE {"ResourceInUseException"})
    \cup {"LimitExceededException"}

\* except ClientError: ResourceInUseException is logged and swallowed.
CreateSwallows(code) == code = "ResourceInUseException"

\* line 131: self.verify_stream_exists() inside the try block.
CreateVerify ==
    /\ cs = "verify"
    /\ \E answer \in DescribeAnswers(streamStatus) :
         LET r == VerifyStreamExists(answer) IN
         /\ lastVerify' = [answer |-> answer, outcome |-> r]
         /\ cs' = IF r.raised # None
                     THEN (IF CreateSwallows(r.raised) THEN "returned" ELSE "raised")
                  ELSE IF r.value THEN "returned"
                  ELSE "create"
    /\ UNCHANGED <<svcVars, metrics, stack, batchResult, mainVars>>

\* line 141: self.client.create_stream(...).
CreateStream ==
    /\ cs = "create"
    /\ \E answer \in CreateAnswers(streamStatus) :
         /\ streamStatus' = IF answer = "created" THEN "CREATING" ELSE streamStatus
         /\ cs' = IF answer = "created" THEN "wait"
                  ELSE IF CreateSwallows(answer) THEN "returned"
                  ELSE "raised"
    /\ createRequests' = createRequests + 1
    /\ UNCHANGED <<failures, accepted, metrics, stack, batchResult,
                   lastVerify, mainVars>>

\* lines 144-145: the stream_exists waiter returns once the stream is ACTIVE.
CreateWaitReturns ==
    /\ cs = "wait"
    /\ streamStatus = "ACTIVE"
    /\ cs' = "returned"
    /\ UNCHANGED <<svcVars, metrics, stack, batchResult, lastVerify, mainVars>>

\* lines 144-145: the waiter gives up (WaiterError, which is no ClientError).
CreateWaitGivesUp ==
    /\ cs = "wait"
    /\ streamStatus # "ACTIVE"
    /\ cs' = "raised"
    /\ UNCHANGED <<svcVars, metrics, stack, batchResult, lastVerify, mainVars>>

(***************************************************************************)
(* KinesisProducer.put_records_batch and _handle_failed_records.  A frame  *)
(* of the stack is one activation of put_records_batch; its pc is          *)
(*   "put"   about to call client.put_records           (line 222)         *)
(*   "sleep" in _handle_failed_records, time.sleep      (line 278)         *)
(*   "inner" waiting for the recursive call             (line 279)         *)
(*   "ret"   about to return its result        (lines 210, 248, 253)       *)
(***************************************************************************)
\* Mutant: no early return for an empty list.
FrameWithoutEmptyCheck(records) ==
    [records        |-> records,
     pc             |-> "put",
     result         |-> [successful |-> 0, failed |-> 0],
     failed_records |-> <<>>,
     outcome        |-> None]

\* lines 209-210: an empty list goes straight to "return {successful: 0, failed: 0}".
Frame(records) ==
    [records        |-> records,
     pc             |-> IF records = <<>> THEN "ret" ELSE "put",
     result         |-> [successful |-> 0, failed |-> 0],
     failed_records |-> <<>>,
     outcome        |-> None]

Top == stack[Len(stack)]

SetTop(f) == [stack EXCEPT ![Len(stack)] = f]

\* Mutant: the handler catches ClientError only, as verify_stream_exists does.
BatchCatchesClientErrorOnly(exc) == exc = "ClientError"

\* except (BotoCoreError, ClientError), line 250.
BatchCatches(exc) == exc \in {"BotoCoreError", "ClientError"}

\* Mutant: every record of the request counts as sent.
SuccessfulCountOfAll(records, failed_count) == Len(records)

\* line 226
SuccessfulCount(records, failed_count) == Len(records) - failed_count

\* lines 228-235
MetricsAfterBatch(m, records, failed_count) ==
    [total_records_sent   |-> m.total_records_sent + SuccessfulCount(records, failed_count),
     total_records_failed |-> m.total_records_failed + failed_count,
     total_batches_sent   |-> m.total_batches_sent + 1,
     total_bytes_sent     |-> m.total_bytes_sent + TotalBytes(records)]

\* line 252
MetricsAfterBatchError(m, records) ==
    [m EXCEPT !.total_records_failed = @ + Len(records)]

\* line 253
BatchErrorResult(records) == [successful |-> 0, failed |-> Len(records)]

\* line 248
BatchResult(records, failed_count) ==
    [successful |-> SuccessfulCount(records, failed_count), failed |-> failed_count]

\* _handle_failed_records, lines 265-273: the original records at the indices whose
\* response entry carries an ErrorCode, in order.
RECURSIVE FailedFrom(_, _, _)
FailedFrom(original_records, response_errors, idx) ==
    IF idx > Len(response_errors) THEN <<>>
    ELSE (IF response_errors[idx] THEN <<original_records[idx]>> ELSE <<>>)
         \o FailedFrom(original_records, response_errors, idx + 1)

\* Mutant: the failed records are looked up by content, not by index.
FailedRecordsByValue(original_records, response_errors) ==
    SelectSeq(original_records,
              LAMBDA r : \E k \in 1..Len(response_errors) :
                            response_errors[k] /\ original_records[k] = r)

FailedRecords(original_records, response_errors) ==
    FailedFrom(original_records, response_errors, 1)

\* line 222 raises: a stream that is not ACTIVE refuses every request, and an
\* ACTIVE one may still fail the whole call (throttling, transport).
PutRecordsRaises ==
    /\ stack # <<>>
    /\ Top.pc = "put"
    /\ failures < MaxFailures
    /\ \E exc \in PutErrors :
         IF BatchCatches(exc)
            THEN /\ metrics' = MetricsAfterBatchError(metrics, Top.records)
                 /\ stack' = SetTop([Top EXCEPT !.pc = "ret",
                                                !.result = BatchErrorResult(Top.records),
                                                !.outcome = "raised"])
                 /\ UNCHANGED batchResult
            ELSE /\ stack' = <<>>
                 /\ batchResult' = Raised
                 /\ UNCHANGED metrics
    /\ failures' = failures + 1
    /\ UNCHANGED <<streamStatus, createRequests, accepted, cs, lastVerify, mainVars>>

\* line 222 returns a response: response_errors[i] says whether entry i carries an
\* ErrorCode, and FailedRecordCount is their number.  Lines 224-248.
PutRecordsResponds ==
    /\ stack # <<>>
    /\ Top.pc = "put"
    /\ streamStatus = "ACTIVE"
    /\ \E response_errors \in [1..Len(Top.records) -> BOOLEAN] :
         LET failed_count   == CountErrors(response_errors, 1)
             failed_records == FailedRecords(Top.records, response_errors)
         IN
         /\ failed_count > 0 => failures < MaxFailures
         /\ failures' = IF failed_count > 0 THEN failures + 1 ELSE failures
         /\ accepted' = accepted + (Len(Top.records) - failed_count)
         /\ metrics' = MetricsAfterBatch(metrics, Top.records, failed_count)
         /\ stack' = SetTop([Top EXCEPT
                 !.pc = IF failed_count > 0 /\ failed_records # <<>> THEN "sleep" ELSE "ret",
                 !.result = BatchResult(Top.records, failed_count),
                 !.failed_records = failed_records,
                 !.outcome = "response"])
    /\ UNCHANGED <<streamStatus, createRequests, batchResult, cs, lastVerify, mainVars>>

\* lines 278-279: after the delay, self.put_records_batch(failed_records).  Nothing
\* in the code limits the depth of this recursion; in the model it is as deep as the
\* service's rejections (MaxFailures) make it.
RetryFailedRecords ==
    /\ stack # <<>>
    /\ Top.pc = "sleep"
    /\ stack' = Append(SetTop([Top EXCEPT !.pc = "inner"]), Frame(Top.failed_records))
    /\ UNCHANGED <<svcVars, metrics, batchResult, cs, lastVerify, mainVars>>

\* A return of put_records_batch: to _handle_failed_records of the frame below,
\* which drops the value and lets that frame return its own counts (line 248), or
\* to the caller of the outermost call.
BatchReturns ==
    /\ stack # <<>>
    /\ Top.pc = "ret"
    /\ IF Len(stack) = 1
          THEN /\ stack' = <<>>
               /\ batchResult' = Returned(Top.result)
          ELSE /\ stack' = [i \in 1..(Len(stack) - 1) |->
                              IF i = Len(stack) - 1
                                 THEN [stack[i] EXCEPT !.pc = "ret"]
                                 ELSE stack[i]]
               /\ UNCHANGED batchResult
    /\ UNCHANGED <<svcVars, metrics, cs, lastVerify, mainVars>>

(***************************************************************************)
(* KinesisProducer.put_record, get_metrics and reset_metrics.              *)
(***************************************************************************)
\* client.put_record: a stream that is ACTIVE may accept the record; any stream may
\* answer with a service error or the transport may fail.
PutRecordAnswers(status) ==
    (IF status = "ACTIVE" THEN {"ok"} ELSE {}) \cup PutErrors

\* Mutant: the handler of put_record catches ClientError only.
PutRecordCatchesClientErrorOnly(exc) == exc = "ClientError"

\* except (BotoCoreError, ClientError), line 192.
PutRecordCatches(exc) == exc \in {"BotoCoreError", "ClientError"}

\* lines 181-182
MetricsAfterPutRecord(m, record) ==
    [m EXCEPT !.total_records_sent = @ + 1,
              !.total_bytes_sent = @ + Utf8Len(record)]

\* line 194
MetricsAfterPutRecordError(m) == [m EXCEPT !.total_records_failed = @ + 1]

\* put_record makes one client.put_record request (line 176) and returns True
\* (line 190), returns False (line 195) or lets the exception through.
PutRecordOutcome(answer) ==
    [status   |-> IF answer = "ok" THEN "True"
                  ELSE IF PutRecordCatches(answer) THEN "False"
                  ELSE "raised",
     requests |-> 1]

\* Mutant: get_metrics hands out self.metrics itself.
GetMetricsLive(m) == [taken |-> TRUE, alias |-> TRUE, value |-> m]

\* line 288: self.metrics.copy(), a new dictionary with the same items.
GetMetrics(m) == [taken |-> TRUE, alias |-> FALSE, value |-> m]

\* What the caller reads in the dictionary get_metrics gave them.
SnapshotValue == IF snapshot.alias THEN metrics ELSE snapshot.value

\* Mutant: the byte counter survives the reset.
ResetMetricsKeepsBytes(m) == [ZeroMetrics EXCEPT !.total_bytes_sent = m.total_bytes_sent]

\* lines 292-297: the dictionary self.metrics is bound to after reset_metrics.
ResetMetrics(m) == ZeroMetrics

(***************************************************************************)
(* The service's own steps.                                                *)
(***************************************************************************)
\* Another party creates the stream.
OtherPartyCreates ==
    /\ streamStatus = "NOT_FOUND"
    /\ streamStatus' = "CREATING"
    /\ UNCHANGED <<createRequests, failures, accepted, clientVars, mainVars>>

\* The stream finishes provisioning.
StreamBecomesActive ==
    /\ streamStatus = "CREATING"
    /\ streamStatus' = "ACTIVE"
    /\ UNCHANGED <<createRequests, failures, accepted, clientVars, mainVars>>

(***************************************************************************)
(* TransactionGenerator (src/producer/data_generator.py).  A ratio or a    *)
(* percentage is held in hundredths: fraud_ratio 0.05 is 5, and a          *)
(* fraud_percentage of 33.33 is 3333.                                      *)
(***************************************************************************)
NoSeed == -1            \* seed=None

Seeds == {42, 123}

FraudRatios == {-10, 0, 5, 100, 150}

\* Pool sizes asked for; a negative one gives range() no element, as 0 does.
PoolSizes == 0..MaxPool

\* What uuid.uuid4() may return: drawn from the operating system, whatever the seed.
Uuids == {"u1", "u2"}

\* What a draw from an unseeded generator may give, in 0..99.
RandomDraws == {0, 99}

RequiredFields == {"transaction_id", "timestamp", "customer_id", "merchant_id",
                   "merchant_name", "merchant_category", "amount", "currency",
                   "is_fraud"}

\* lines 68-79
Categories == <<"grocery", "restaurant", "gas_station", "online_retail",
                "entertainment", "travel", "electronics", "clothing", "healthcare",
                "utilities">>

\* len(range(n))
RangeLen(n) == IF n > 0 THEN n ELSE 0

\* The module-level random generator and the generator all Faker objects share:
\* the seed each was last given and the number of values taken since.
InitialRng == [seed |-> NoSeed, random |-> 0, faker |-> 0]

\* lines 59-61: Faker.seed(seed); random.seed(seed)
Seed(r, seed) == IF seed = NoSeed THEN r ELSE [seed |-> seed, random |-> 0, faker |-> 0]

AdvanceRandom(r, k) == [r EXCEPT !.random = @ + k]

AdvanceFaker(r, k) == [r EXCEPT !.faker = @ + k]

\* The next value of `random`, in 0..99: fixed by the seed and the position, or,
\* without a seed, whatever the entropy u makes it.
RandomValue(r, u) == IF r.seed = NoSeed THEN u ELSE (r.seed * 31 + r.random * 17) % 100

\* The k-th next value of the Faker generator, as a token.
FakerValue(r, k) == [seed |-> r.seed, position |-> r.faker + k]

\* random.choice(seq) on a non-empty seq
Choice(seq, r, u) == seq[(RandomValue(r, u) % Len(seq)) + 1]

\* The attributes __init__ has assigned when it reaches line 64.
InitAttrs == {"fraud_ratio", "num_merchants", "num_customers", "fake"}

\* Iterations of the loop of line 84 that begin, and that reach random.choice: an
\* iteration that cannot read self.categories is the last one and takes no value
\* from `random`.
MerchantsStarted(attrs, num_merchants) ==
    IF "categories" \in attrs THEN RangeLen(num_merchants)
    ELSE IF RangeLen(num_merchants) > 0 THEN 1 ELSE 0

MerchantsChosen(attrs, num_merchants) ==
    IF "categories" \in attrs THEN RangeLen(num_merchants) ELSE 0

NoGenerator == [fraud_ratio |-> 0, num_merchants |-> 0, num_customers |-> 0,
                merchants |-> <<>>, customers |-> <<>>, attrs |-> {}]

\* _generate_merchants, lines 81-98.  The first iteration evaluates uuid.uuid4(),
\* self.fake.company() and then self.categories (line 88); reading an attribute the
\* object does not have yet raises AttributeError.
GenerateMerchants(attrs, num_merchants, r, ids, us) ==
    IF RangeLen(num_merchants) = 0
       THEN [raised |-> None, value |-> <<>>, rng |-> r]
    ELSE IF "categories" \notin attrs
       THEN [raised |-> "AttributeError", value |-> <<>>, rng |-> AdvanceFaker(r, 1)]
    ELSE [raised |-> None,
          value  |-> [i \in 1..num_merchants |->
                        [merchant_id       |-> [kind |-> "M", uuid |-> ids[i]],
                         merchant_name     |-> FakerValue(r, i - 1),
                         merchant_category |-> Choice(Categories,
                                                      AdvanceRandom(r, i - 1), us[i])]],
          rng    |-> AdvanceRandom(AdvanceFaker(r, num_merchants), num_merchants)]

\* _generate_customers, lines 100-118
GenerateCustomers(num_customers, r, ids) ==
    [raised |-> None,
     value  |-> [i \in 1..RangeLen(num_customers) |->
                   [customer_id   |-> [kind |-> "C", uuid |-> ids[i]],
                    customer_name |-> FakerValue(r, i - 1)]],
     rng    |-> AdvanceFaker(r, RangeLen(num_customers))]

\* line 50
ValidFraudRatio(fraud_ratio) == 0 <= fraud_ratio /\ fraud_ratio <= 100

\* __init__, lines 50-79, in the order of the code: the check of fraud_ratio, the
\* attributes of lines 53-58, the seeding, the merchant pool (line 64), the customer
\* pool (line 65) and only then self.categories (line 68).
NewGenerator(fraud_ratio, num_merchants, num_customers, seed, r, mids, cids, us) ==
    IF ~ValidFraudRatio(fraud_ratio)
       THEN [raised |-> "ValueError", gen |-> NoGenerator, rng |-> r]
    ELSE LET attrs == InitAttrs
             m     == GenerateMerchants(attrs, num_merchants, Seed(r, seed), mids, us)
             c     == GenerateCustomers(num_customers, m.rng, cids)
         IN  IF m.raised # None
                THEN [raised |-> m.raised, gen |-> NoGenerator, rng |-> m.rng]
                ELSE [raised |-> None,
                      gen    |-> [fraud_ratio   |-> fraud_ratio,
                                  num_merchants |-> num_merchants,
                                  num_customers |-> num_customers,
                                  merchants     |-> m.value,
                                  customers     |-> c.value,
                                  attrs         |-> attrs \cup {"merchants", "customers",
                                                                "categories"}],
                      rng    |-> c.rng]

NoTransaction ==
    [transaction_id |-> "none", timestamp |-> "none",
     customer_id |-> [kind |-> "C", uuid |-> "none"],
     merchant_id |-> [kind |-> "M", uuid |-> "none"],
     merchant_name |-> [seed |-> NoSeed, position |-> 0],
     merchant_category |-> "none", amount |-> "none", currency |-> "none",
     card_type |-> "none", is_fraud |-> FALSE]

\* generate_transaction, lines 153-196.  is_fraud is "None", "True" or "False".
\* random.choice raises IndexError on an empty pool (lines 158, 159).  The values
\* taken from `random` after the merchant are the time offset, the amount (one or
\* two values) and the card type.
GenerateTransaction(gen, is_fraud, r, e) ==
    LET r1    == IF is_fraud = "None" THEN AdvanceRandom(r, 1) ELSE r
        fraud == IF is_fraud = "None" THEN RandomValue(r, e.u) < gen.fraud_ratio
                 ELSE is_fraud = "True"
    IN  IF gen.customers = <<>>
           THEN [raised |-> "IndexError", value |-> NoTransaction, rng |-> r1]
        ELSE IF gen.merchants = <<>>
           THEN [raised |-> "IndexError", value |-> NoTransaction,
                 rng |-> AdvanceRandom(r1, 1)]
        ELSE LET customer == Choice(gen.customers, r1, e.u)
                 merchant == Choice(gen.merchants, AdvanceRandom(r1, 1), e.u)
             IN  [raised |-> None,
                  value  |-> [transaction_id    |-> e.id,
                              timestamp         |-> "utcnow",
                              customer_id       |-> customer.customer_id,
                              merchant_id       |-> merchant.merchant_id,
                              merchant_name     |-> merchant.merchant_name,
                              merchant_category |-> merchant.merchant_category,
                              amount            |-> "amount",
                              currency          |-> "USD",
                              card_type         |-> "card",
                              is_fraud          |-> fraud],
                  rng    |-> AdvanceRandom(r1, IF fraud THEN 6 ELSE 5)]

\* generate_batch, lines 234-244: one generate_transaction() per element of
\* range(batch_size), in order; the first exception ends the comprehension.
RECURSIVE BatchFrom(_, _, _, _, _, _)
BatchFrom(gen, size, r, es, i, acc) ==
    IF i > size THEN [raised |-> None, value |-> acc, rng |-> r]
    ELSE LET t == GenerateTransaction(gen, "None", r, es[i])
         IN  IF t.raised # None
                THEN [raised |-> t.raised, value |-> <<>>, rng |-> t.rng]
                ELSE BatchFrom(gen, size, t.rng, es, i + 1, Append(acc, t.value))

GenerateBatch(gen, size, r, es) == BatchFrom(gen, size, r, es, 1, <<>>)

\* Entropy one generate_transaction call may use.
Entropy == [u : RandomDraws, id : Uuids]

\* generate_transaction calls one generate_batch(size) call makes.
BatchIterations(gen, size) ==
    IF gen.customers = <<>> \/ gen.merchants = <<>>
       THEN (IF RangeLen(size) > 0 THEN 1 ELSE 0)
       ELSE RangeLen(size)

\* sum(1 for t in transactions if t["is_fraud"]), line 269
RECURSIVE FraudCount(_, _)
FraudCount(ts, i) ==
    IF i > Len(ts) THEN 0 ELSE (IF ts[i].is_fraud THEN 1 ELSE 0) + FraudCount(ts, i + 1)

\* Mutant: the percentage is cut, not rounded, to two decimals.
FraudPercentageTruncated(fraud_count, total) ==
    IF total > 0 THEN (10000 * fraud_count) \div total ELSE 0

\* line 275: round((fraud_count / total * 100), 2) if total > 0 else 0, in
\* hundredths.  (A tie between two hundredths needs a total divisible by 32.)
FraudPercentage(fraud_count, total) ==
    IF total > 0 THEN (2 * 10000 * fraud_count + total) \div (2 * total) ELSE 0

\* get_fraud_statistics, lines 268-276
GetFraudStatistics(ts) ==
    LET total       == Len(ts)
        fraud_count == FraudCount(ts, 1)
    IN  [total_transactions |-> total,
         fraud_count        |-> fraud_count,
         legitimate_count   |-> total - fraud_count,
         fraud_percentage   |-> FraudPercentage(fraud_count, total)]

(***************************************************************************)
(* run_producer (src/producer/main.py).  pc:                               *)
(*   "construct"  lines 120-136                                            *)
(*   "verify"     line 139      "create"    line 141 (call)                *)
(*   "in_create"  inside create_stream_if_not_exists                       *)
(*   "sleep"      line 143      "register"  lines 146-152                  *)
(*   "loop_head"  line 154      "generate"  lines 156-170                  *)
(*   "send"       line 173 (call)   "sending"  inside put_records_batch    *)
(*   "pace"       lines 186-187 "report"    lines 190-201                  *)
(*   "close"      line 204      "done"      returned                       *)
(*   "interrupted" sys.exit(0), line 208    "failed"  re-raised, line 211  *)
(*   "killed"     ended by a signal's default action                       *)
(***************************************************************************)
Ended == {"done", "interrupted", "failed", "killed"}

\* Mutant: the loop does not look at the shutdown flag.
LoopConditionIgnoresShutdown(sent, target, shutdown) == sent < target

\* line 154
LoopCondition(sent, target, shutdown) == sent < target /\ ~shutdown

\* line 156
Min(a, b) == IF a < b THEN a ELSE b

CurrentBatchSize(configured, target, sent) == Min(configured, target - sent)

\* lines 120-136: the generator is built from the configuration, with no seed; an
\* exception of its constructor is logged and re-raised at lines 209-211.  Then the
\* client is built.
MainConstruct ==
    /\ pc = "construct"
    /\ \E fraud_ratio \in FraudRatios, num_merchants \in PoolSizes,
          num_customers \in PoolSizes :
       \E mids \in [1..MerchantsStarted(InitAttrs, num_merchants) -> Uuids],
          cids \in [1..RangeLen(num_customers) -> Uuids],
          us \in [1..MerchantsChosen(InitAttrs, num_merchants) -> RandomDraws] :
         LET g == NewGenerator(fraud_ratio, num_merchants, num_customers, NoSeed,
                               rng, mids, cids, us)
         IN  /\ rng' = g.rng
             /\ IF g.raised # None
                   THEN pc' = "failed" /\ UNCHANGED generators
                   ELSE pc' = "verify" /\ generators' = <<g.gen>>
    /\ UNCHANGED <<svcVars, clientVars, num_transactions, batch_size, total_sent,
                   batch_count, transactions, shutdown_requested, handlersRegistered,
                   sendsAfterSignal, reports, closed, apiCalls, createRaised,
                   setupVars, callVars, genLog, genResult, retryVars>>

\* line 139
MainVerify ==
    /\ pc = "verify"
    /\ \E answer \in DescribeAnswers(streamStatus) :
         LET r == VerifyStreamExists(answer) IN
         /\ lastVerify' = [answer |-> answer, outcome |-> r]
         /\ pc' = IF r.raised # None THEN "failed"
                  ELSE IF r.value THEN "register"
                  ELSE "create"
    /\ UNCHANGED <<svcVars, metrics, stack, batchResult, cs, num_transactions, batch_size,
                   total_sent, batch_count, transactions, shutdown_requested,
                   handlersRegistered, sendsAfterSignal, reports, closed, apiVars>>

\* line 141, the call
MainCreate ==
    /\ pc = "create"
    /\ cs = "idle"
    /\ cs' = "verify"
    /\ pc' = "in_create"
    /\ UNCHANGED <<svcVars, metrics, stack, batchResult, lastVerify, num_transactions,
                   batch_size, total_sent, batch_count, transactions, shutdown_requested,
                   handlersRegistered, sendsAfterSignal, reports, closed, apiVars>>

\* line 141, create_stream_if_not_exists has returned or raised
MainCreateEnds ==
    /\ pc = "in_create"
    /\ cs \in {"returned", "raised"}
    /\ pc' = IF cs = "returned" THEN "sleep" ELSE "failed"
    /\ cs' = "idle"
    /\ UNCHANGED <<svcVars, metrics, stack, batchResult, lastVerify, num_transactions,
                   batch_size, total_sent, batch_count, transactions, shutdown_requested,
                   handlersRegistered, sendsAfterSignal, reports, closed, apiVars>>

\* line 143: time.sleep(2)
MainSleep ==
    /\ pc = "sleep"
    /\ pc' = "register"
    /\ UNCHANGED <<svcVars, clientVars, num_transactions, batch_size, total_sent,
                   batch_count, transactions, shutdown_requested, handlersRegistered,
                   sendsAfterSignal, reports, closed, apiVars>>

\* lines 146-152
MainRegister ==
    /\ pc = "register"
    /\ handlersRegistered' = TRUE
    /\ total_sent' = 0
    /\ batch_count' = 0
    /\ pc' = "loop_head"
    /\ UNCHANGED <<svcVars, clientVars, num_transactions, batch_size, transactions,
                   shutdown_requested, sendsAfterSignal, reports, closed, apiVars>>

\* Mutant: leaving the loop goes straight to producer.close().
MainLoopCheckSkipsReport ==
    /\ pc = "loop_head"
    /\ LoopCondition(total_sent, num_transactions, shutdown_requested)
          => batch_count < MaxIterations
    /\ pc' = IF LoopCondition(total_sent, num_transactions, shutdown_requested)
                THEN "generate" ELSE "close"
    /\ UNCHANGED <<svcVars, clientVars, num_transactions, batch_size, total_sent,
                   batch_count, transactions, shutdown_requested, handlersRegistered,
                   sendsAfterSignal, reports, closed, apiVars>>

\* line 154.  Nothing bounds the number of iterations; the model follows the first
\* MaxIterations of them.
MainLoopCheck ==
    /\ pc = "loop_head"
    /\ LoopCondition(total_sent, num_transactions, shutdown_requested)
          => batch_count < MaxIterations
    /\ pc' = IF LoopCondition(total_sent, num_transactions, shutdown_requested)
                THEN "generate" ELSE "report"
    /\ UNCHANGED <<svcVars, clientVars, num_transactions, batch_size, total_sent,
                   batch_count, transactions, shutdown_requested, handlersRegistered,
                   sendsAfterSignal, reports, closed, apiVars>>

\* lines 156-170: generator.generate_batch(current_batch_size); an exception of
\* generate_transaction leaves the loop for lines 209-211.  get_fraud_statistics
\* (line 162) reads the batch and changes nothing.
MainGenerate ==
    /\ pc = "generate"
    /\ LET current_batch_size == CurrentBatchSize(batch_size, num_transactions, total_sent)
           generator          == generators[1]
       IN  \E es \in [1..BatchIterations(generator, current_batch_size) -> Entropy] :
             LET b == GenerateBatch(generator, current_batch_size, rng, es)
             IN  /\ rng' = b.rng
                 /\ IF b.raised # None
                       THEN pc' = "failed" /\ UNCHANGED transactions
                       ELSE /\ pc' = "send"
                            /\ transactions' = [k \in 1..Len(b.value) |->
                                                  PayloadClass(b.value[k])]
    /\ UNCHANGED <<svcVars, clientVars, num_transactions, batch_size, total_sent,
                   batch_count, shutdown_requested, handlersRegistered, sendsAfterSignal,
                   reports, closed, apiCalls, createRaised, setupVars, callVars,
                   generators, genLog, genResult, retryVars>>

\* line 173, the call
MainSend ==
    /\ pc = "send"
    /\ stack' = <<Frame(transactions)>>
    /\ batchResult' = NoResult
    /\ sendsAfterSignal' = IF shutdown_requested THEN sendsAfterSignal + 1
                           ELSE sendsAfterSignal
    /\ pc' = "sending"
    /\ UNCHANGED <<svcVars, metrics, cs, lastVerify, num_transactions, batch_size,
                   total_sent, batch_count, transactions, shutdown_requested,
                   handlersRegistered, reports, closed, apiVars>>

\* lines 173-183: put_records_batch has returned (or, were it to raise, line 209-211)
MainSendEnds ==
    /\ pc = "sending"
    /\ stack = <<>>
    /\ batchResult.status # "none"
    /\ IF batchResult.status = "raised"
          THEN /\ pc' = "failed"
               /\ UNCHANGED <<total_sent, batch_count>>
          ELSE /\ total_sent' = total_sent + batchResult.successful
               /\ batch_count' = batch_count + 1
               /\ pc' = "pace"
    /\ UNCHANGED <<svcVars, clientVars, num_transactions, batch_size, transactions,
                   shutdown_requested, handlersRegistered, sendsAfterSignal, reports,
                   closed, apiVars>>

\* lines 186-187: the optional inter-batch sleep
MainPace ==
    /\ pc = "pace"
    /\ pc' = "loop_head"
    /\ UNCHANGED <<svcVars, clientVars, num_transactions, batch_size, total_sent,
                   batch_count, transactions, shutdown_requested, handlersRegistered,
                   sendsAfterSignal, reports, closed, apiVars>>

\* lines 190-201: get_metrics() and the "Producer finished" event
MainReport ==
    /\ pc = "report"
    /\ reports' = reports + 1
    /\ pc' = "close"
    /\ UNCHANGED <<svcVars, clientVars, num_transactions, batch_size, total_sent,
                   batch_count, transactions, shutdown_requested, handlersRegistered,
                   sendsAfterSignal, closed, apiVars>>

\* line 204: producer.close()
MainClose ==
    /\ pc = "close"
    /\ closed' = TRUE
    /\ pc' = "done"
    /\ UNCHANGED <<svcVars, clientVars, num_transactions, batch_size, total_sent,
                   batch_count, transactions, shutdown_requested, handlersRegistered,
                   sendsAfterSignal, reports, apiVars>>

\* SIGINT or SIGTERM reaches the process.  With the handlers of lines 146-147
\* installed, signal_handler sets the flag.  Before that, SIGINT raises
\* KeyboardInterrupt inside the try block (lines 206-208) and SIGTERM ends the
\* process.
Signal ==
    /\ pc \notin Ended
    /\ \E sig \in {"SIGINT", "SIGTERM"} :
         IF handlersRegistered
            THEN /\ shutdown_requested' = TRUE
                 /\ UNCHANGED <<pc, cs>>
            ELSE /\ pc' = IF sig = "SIGINT" THEN "interrupted" ELSE "killed"
                 /\ cs' = "idle"
                 /\ UNCHANGED shutdown_requested
    /\ UNCHANGED <<svcVars, metrics, stack, batchResult, lastVerify, num_transactions,
                   batch_size, total_sent, batch_count, transactions, handlersRegistered,
                   sendsAfterSignal, reports, closed, apiVars>>

(***************************************************************************)
(* A direct user of the client (pc = "api"): calls its methods one at a    *)
(* time, in any order.                                                     *)
(***************************************************************************)
ApiIdle == pc = "api" /\ cs = "idle" /\ stack = <<>> /\ apiCalls < MaxApiCalls

ApiUnchanged == <<num_transactions, batch_size, total_sent, batch_count,
                  shutdown_requested, handlersRegistered, sendsAfterSignal, reports,
                  closed, pc, extVars>>

\* producer.verify_stream_exists()
ApiVerify ==
    /\ ApiIdle
    /\ \E answer \in DescribeAnswers(streamStatus) :
         lastVerify' = [answer |-> answer, outcome |-> VerifyStreamExists(answer)]
    /\ apiCalls' = apiCalls + 1
    /\ UNCHANGED <<svcVars, metrics, stack, batchResult, cs, transactions, createRaised,
                   ApiUnchanged>>

\* producer.create_stream_if_not_exists(), the call
ApiCreate ==
    /\ ApiIdle
    /\ cs' = "verify"
    /\ apiCalls' = apiCalls + 1
    /\ UNCHANGED <<svcVars, metrics, stack, batchResult, lastVerify, transactions,
                   createRaised, ApiUnchanged>>

\* create_stream_if_not_exists has returned or raised
ApiCreateEnds ==
    /\ pc = "api"
    /\ cs \in {"returned", "raised"}
    /\ createRaised' = (createRaised \/ cs = "raised")
    /\ cs' = "idle"
    /\ UNCHANGED <<svcVars, metrics, stack, batchResult, lastVerify, transactions,
                   apiCalls, ApiUnchanged>>

\* producer.put_records_batch(records), the call; transactions keeps the argument
ApiPutRecordsBatch ==
    /\ ApiIdle
    /\ \E records \in SeqsUpTo(Contents, MaxApiBatch) :
         /\ stack' = <<Frame(records)>>
         /\ transactions' = records
    /\ batchResult' = NoResult
    /\ apiCalls' = apiCalls + 1
    /\ UNCHANGED <<svcVars, metrics, cs, lastVerify, createRaised, ApiUnchanged>>

(***************************************************************************)
(* A user of put_record, put_records_batch and the metrics calls           *)
(* (pc = "metrics"): one call at a time, in any order.                     *)
(***************************************************************************)
MetricsIdle == pc = "metrics" /\ stack = <<>> /\ apiCalls < MaxMetricsCalls

MetricsUnchanged == <<createRequests, cs, lastVerify, num_transactions, batch_size,
                      total_sent, batch_count, shutdown_requested, handlersRegistered,
                      sendsAfterSignal, reports, closed, pc, createRaised, setupVars,
                      genVars, retryVars>>

\* producer.put_record(record), lines 156-195
PutRecord ==
    /\ MetricsIdle
    /\ \E record \in Contents, answer \in PutRecordAnswers(streamStatus) :
         /\ putResult' = PutRecordOutcome(answer)
         /\ metrics' = IF answer = "ok" THEN MetricsAfterPutRecord(metrics, record)
                       ELSE IF PutRecordCatches(answer)
                          THEN MetricsAfterPutRecordError(metrics)
                       ELSE metrics
         /\ accepted' = IF answer = "ok" THEN accepted + 1 ELSE accepted
         /\ transactions' = <<record>>
    /\ lastCall' = "put_record"
    /\ apiCalls' = apiCalls + 1
    /\ UNCHANGED <<streamStatus, failures, stack, batchResult, snapshot,
                   MetricsUnchanged>>

\* producer.put_records_batch(records), the call
MetricsPutRecordsBatch ==
    /\ MetricsIdle
    /\ \E records \in SeqsUpTo(Contents, MaxMetricsBatch) :
         /\ stack' = <<Frame(records)>>
         /\ transactions' = records
    /\ batchResult' = NoResult
    /\ lastCall' = "put_records_batch"
    /\ apiCalls' = apiCalls + 1
    /\ UNCHANGED <<streamStatus, failures, accepted, metrics, putResult, snapshot,
                   MetricsUnchanged>>

\* snapshot = producer.get_metrics(), lines 281-288
CallGetMetrics ==
    /\ MetricsIdle
    /\ snapshot' = GetMetrics(metrics)
    /\ lastCall' = "get_metrics"
    /\ apiCalls' = apiCalls + 1
    /\ UNCHANGED <<streamStatus, failures, accepted, metrics, stack, batchResult,
                   transactions, putResult, MetricsUnchanged>>

\* producer.reset_metrics(), lines 290-298: self.metrics is bound to a new
\* dictionary; a dictionary handed out earlier keeps its items.
CallResetMetrics ==
    /\ MetricsIdle
    /\ metrics' = ResetMetrics(metrics)
    /\ snapshot' = IF snapshot.alias
                      THEN [snapshot EXCEPT !.alias = FALSE, !.value = metrics]
                      ELSE snapshot
    /\ lastCall' = "reset_metrics"
    /\ apiCalls' = apiCalls + 1
    /\ UNCHANGED <<streamStatus, failures, accepted, stack, batchResult, transactions,
                   putResult, MetricsUnchanged>>

\* The caller writes into the dictionary get_metrics gave them:
\* snapshot["total_records_sent"] = -1.
ModifySnapshot ==
    /\ MetricsIdle
    /\ snapshot.taken
    /\ SnapshotValue.total_records_sent # -1
    /\ IF snapshot.alias
          THEN /\ metrics' = [metrics EXCEPT !.total_records_sent = -1]
               /\ UNCHANGED snapshot
          ELSE /\ snapshot' = [snapshot EXCEPT !.value.total_records_sent = -1]
               /\ UNCHANGED metrics
    /\ lastCall' = "modify"
    /\ apiCalls' = apiCalls + 1
    /\ UNCHANGED <<streamStatus, failures, accepted, stack, batchResult, transactions,
                   putResult, MetricsUnchanged>>

(***************************************************************************)
(* A user of TransactionGenerator (pc = "gen"): constructs generators and  *)
(* calls their methods, one call at a time.                                *)
(***************************************************************************)
\* The two generators of test_reproducibility_with_seed.
GeneratorIds == {1, 2}

\* The lists get_fraud_statistics is handed: what it reads of an element is
\* t["is_fraud"].
StatsLists == SeqsUpTo({[is_fraud |-> TRUE], [is_fraud |-> FALSE]}, MaxStatsList)

NoGenResult ==
    [op |-> "none", raised |-> None, gen |-> 0, fraud_ratio |-> 0, num_merchants |-> 0,
     num_customers |-> 0, seed |-> NoSeed, size |-> 0, value |-> <<>>, list |-> <<>>,
     stats |-> GetFraudStatistics(<<>>)]

\* The outcomes of the generate_transaction calls one generate_batch call made.
BatchOutcomes(r) ==
    [i \in 1..Len(r.value) |-> [raised |-> None, value |-> r.value[i]]]
    \o (IF r.raised # None THEN <<[raised |-> r.raised, value |-> NoTransaction]>>
        ELSE <<>>)

GenIdle == pc = "gen" /\ apiCalls < MaxGenCalls

GenUnchanged == <<svcVars, clientVars, pc, num_transactions, batch_size, total_sent,
                  batch_count, transactions, shutdown_requested, handlersRegistered,
                  sendsAfterSignal, reports, closed, createRaised, setupVars, callVars,
                  retryVars>>

\* TransactionGenerator(fraud_ratio, num_merchants, num_customers, seed)
Construct ==
    /\ GenIdle
    /\ Len(generators) < Cardinality(GeneratorIds)
    /\ \E fraud_ratio \in FraudRatios, num_merchants \in PoolSizes,
          num_customers \in PoolSizes, seed \in Seeds \cup {NoSeed} :
       \E mids \in [1..MerchantsStarted(InitAttrs, num_merchants) -> Uuids],
          cids \in [1..RangeLen(num_customers) -> Uuids],
          us \in [1..MerchantsChosen(InitAttrs, num_merchants) -> RandomDraws] :
         LET res == NewGenerator(fraud_ratio, num_merchants, num_customers, seed, rng,
                                 mids, cids, us)
         IN  /\ rng' = res.rng
             /\ generators' = IF res.raised = None THEN Append(generators, res.gen)
                              ELSE generators
             /\ genLog' = IF res.raised = None
                             THEN Append(genLog, [seed |-> seed, outcomes |-> <<>>])
                             ELSE genLog
             /\ genResult' = [NoGenResult EXCEPT
                                !.op = "init",
                                !.raised = res.raised,
                                !.gen = IF res.raised = None THEN Len(generators) + 1 ELSE 0,
                                !.fraud_ratio = fraud_ratio,
                                !.num_merchants = num_merchants,
                                !.num_customers = num_customers,
                                !.seed = seed]
    /\ apiCalls' = apiCalls + 1
    /\ UNCHANGED GenUnchanged

\* generator.generate_transaction(is_fraud)
CallGenerateTransaction ==
    /\ GenIdle
    /\ \E g \in 1..Len(generators), is_fraud \in {"None", "True", "False"},
          e \in Entropy :
         LET t == GenerateTransaction(generators[g], is_fraud, rng, e)
         IN  /\ rng' = t.rng
             /\ genLog' = [genLog EXCEPT ![g].outcomes =
                              Append(@, [raised |-> t.raised, value |-> t.value])]
             /\ genResult' = [NoGenResult EXCEPT
                                !.op = "generate_transaction",
                                !.raised = t.raised,
                                !.gen = g,
                                !.value = IF t.raised = None THEN <<t.value>> ELSE <<>>]
    /\ apiCalls' = apiCalls + 1
    /\ UNCHANGED <<generators, GenUnchanged>>

\* generator.generate_batch(size)
CallGenerateBatch ==
    /\ GenIdle
    /\ \E g \in 1..Len(generators), size \in -1..MaxBatchArg :
       \E es \in [1..BatchIterations(generators[g], size) -> Entropy] :
         LET r == GenerateBatch(generators[g], size, rng, es)
         IN  /\ rng' = r.rng
             /\ genLog' = [genLog EXCEPT ![g].outcomes = @ \o BatchOutcomes(r)]
             /\ genResult' = [NoGenResult EXCEPT
                                !.op = "generate_batch",
                                !.raised = r.raised,
                                !.gen = g,
                                !.size = size,
                                !.value = r.value]
    /\ apiCalls' = apiCalls + 1
    /\ UNCHANGED <<generators, GenUnchanged>>

\* generator.get_fraud_statistics(ts); list is the caller's list after the call.
CallGetFraudStatistics ==
    /\ GenIdle
    /\ \E g \in 1..Len(generators), ts \in StatsLists :
         genResult' = [NoGenResult EXCEPT
                         !.op = "get_fraud_statistics",
                         !.gen = g,
                         !.size = Len(ts),
                         !.list = ts,
                         !.stats = GetFraudStatistics(ts)]
    /\ apiCalls' = apiCalls + 1
    /\ UNCHANGED <<generators, rng, genLog, GenUnchanged>>

(***************************************************************************)
(* A caller of KinesisProducer._handle_failed_records (pc = "retry"), with *)
(* a list of records and a response of one entry per record.               *)
(***************************************************************************)
\* lines 264-279: the list is built from the entries with an ErrorCode; a list
\* that is not empty is handed to put_records_batch after the delay.
HandleFailedRecords ==
    /\ pc = "retry"
    /\ ~handled.called
    /\ \E original_records \in SeqsUpTo(Contents, MaxRetryList) :
       \E response_errors \in [1..Len(original_records) -> BOOLEAN] :
         LET failed_records == FailedRecords(original_records, response_errors)
         IN  /\ transactions' = original_records
             /\ handled' = [called         |-> TRUE,
                            response       |-> response_errors,
                            failed_records |-> failed_records,
                            resubmissions  |-> IF failed_records # <<>> THEN 1 ELSE 0]
             /\ stack' = IF failed_records # <<>> THEN <<Frame(failed_records)>>
                         ELSE <<>>
    /\ UNCHANGED <<svcVars, metrics, batchResult, cs, lastVerify, pc, num_transactions,
                   batch_size, total_sent, batch_count, shutdown_requested,
                   handlersRegistered, sendsAfterSignal, reports, closed, apiCalls,
                   createRaised, setupVars, callVars, genVars>>

(***************************************************************************)
(* create_kinesis_stream (src/scripts/setup_localstack.py).  Every         *)
(* exception inside the function reaches "except Exception" (line 106),    *)
(* which returns False.                                                    *)
(***************************************************************************)
SetupEnds(result) ==
    /\ setupPc' = "done"
    /\ setupResult' = result

\* Mutant: the loop runs once more than max_attempts.
SetupLoopContinuesOnceMore(a) == a <= max_attempts

\* line 82: for attempt in range(max_attempts)
SetupLoopContinues(a) == a < max_attempts

\* lines 66-74: a stream that exists, in any status, ends the function with True;
\* ResourceNotFoundException goes on to create; any other error is re-raised.
SetupCheck ==
    /\ setupPc = "check"
    /\ \E answer \in DescribeAnswers(streamStatus) :
         IF answer.kind = "status"
            THEN SetupEnds("True")
         ELSE IF answer.kind = "ClientError" /\ answer.code = "ResourceNotFoundException"
            THEN setupPc' = "create" /\ UNCHANGED setupResult
         ELSE SetupEnds("False")
    /\ UNCHANGED <<svcVars, clientVars, pc, num_transactions, batch_size, total_sent,
                   batch_count, transactions, shutdown_requested, handlersRegistered,
                   sendsAfterSignal, reports, closed, apiCalls, createRaised,
                   attempt, pollQueries, callVars, genVars, retryVars>>

\* line 77: kinesis.create_stream; a refusal is a ClientError.
SetupCreate ==
    /\ setupPc = "create"
    /\ \E answer \in CreateAnswers(streamStatus) :
         IF answer = "created"
            THEN /\ streamStatus' = "CREATING"
                 /\ setupPc' = "poll"
                 /\ UNCHANGED setupResult
            ELSE /\ SetupEnds("False")
                 /\ UNCHANGED streamStatus
    /\ createRequests' = createRequests + 1
    /\ attempt' = 0
    /\ UNCHANGED <<failures, accepted, clientVars, pc, num_transactions, batch_size,
                   total_sent, batch_count, transactions, shutdown_requested,
                   handlersRegistered, sendsAfterSignal, reports, closed, apiCalls,
                   createRaised, pollQueries, callVars, genVars, retryVars>>

\* lines 82-101, one iteration: ACTIVE returns True; another status, or a
\* ClientError (caught at line 99), sleeps and moves to the next attempt; any other
\* exception leaves the loop for line 106.
SetupPoll ==
    /\ setupPc = "poll"
    /\ SetupLoopContinues(attempt)
    /\ pollQueries' = pollQueries + 1
    /\ \E answer \in DescribeAnswers(streamStatus) :
         IF answer.kind = "status" /\ answer.code = "ACTIVE"
            THEN SetupEnds("True") /\ UNCHANGED attempt
         ELSE IF answer.kind \in {"status", "ClientError"}
            THEN attempt' = attempt + 1 /\ UNCHANGED <<setupPc, setupResult>>
         ELSE SetupEnds("False") /\ UNCHANGED attempt
    /\ UNCHANGED <<svcVars, clientVars, pc, num_transactions, batch_size, total_sent,
                   batch_count, transactions, shutdown_requested, handlersRegistered,
                   sendsAfterSignal, reports, closed, apiCalls, createRaised,
                   callVars, genVars, retryVars>>

\* lines 103-104: the loop is exhausted.
SetupGiveUp ==
    /\ setupPc = "poll"
    /\ ~SetupLoopContinues(attempt)
    /\ SetupEnds("False")
    /\ UNCHANGED <<svcVars, clientVars, pc, num_transactions, batch_size, total_sent,
                   batch_count, transactions, shutdown_requested, handlersRegistered,
                   sendsAfterSignal, reports, closed, apiCalls, createRaised,
                   attempt, pollQueries, callVars, genVars, retryVars>>

(***************************************************************************)
(* Specifications.                                                         *)
(***************************************************************************)
InitCommon ==
    /\ streamStatus \in {"NOT_FOUND", "CREATING", "ACTIVE"}
    /\ createRequests = 0
    /\ failures = 0
    /\ accepted = 0
    /\ metrics = ZeroMetrics
    /\ stack = <<>>
    /\ batchResult = NoResult
    /\ cs = "idle"
    /\ lastVerify = NoVerify
    /\ total_sent = 0
    /\ batch_count = 0
    /\ transactions = <<>>
    /\ shutdown_requested = FALSE
    /\ handlersRegistered = FALSE
    /\ sendsAfterSignal = 0
    /\ reports = 0
    /\ closed = FALSE
    /\ apiCalls = 0
    /\ createRaised = FALSE
    /\ handled = NotHandled

\* No single-record or metrics call has been made.
NoCalls ==
    /\ lastCall = "none"
    /\ putResult = NoPutResult
    /\ snapshot = NoSnapshot

\* No TransactionGenerator has been constructed.
NoGenerators ==
    /\ generators = <<>>
    /\ rng = InitialRng
    /\ genLog = <<>>
    /\ genResult = NoGenResult

\* The setup script is not running.
SetupOff ==
    /\ setupPc = "off"
    /\ attempt = 0
    /\ pollQueries = 0
    /\ setupResult = "none"

\* run_producer entering its try block (line 120), with --num-transactions and the
\* configured batch size (any integer; one below 0 gives the empty range, as 0
\* does).
Init ==
    /\ InitCommon
    /\ SetupOff
    /\ NoCalls
    /\ NoGenerators
    /\ pc = "construct"
    /\ num_transactions \in 0..MaxTarget
    /\ batch_size \in 0..MaxBatch

CreateSteps ==
    \/ CreateVerify
    \/ CreateStream
    \/ CreateWaitReturns
    \/ CreateWaitGivesUp

BatchSteps ==
    \/ PutRecordsRaises
    \/ PutRecordsResponds
    \/ RetryFailedRecords
    \/ BatchReturns

ClientSteps ==
    \/ CreateSteps
    \/ BatchSteps

ServiceSteps ==
    \/ OtherPartyCreates
    \/ StreamBecomesActive

\* The batches run_producer hands to put_records_batch are empty (no generator
\* that can be constructed has a merchant to choose), so of the steps of
\* put_records_batch only the return occurs.
Next ==
    \/ MainConstruct
    \/ MainVerify
    \/ MainCreate
    \/ MainCreateEnds
    \/ MainSleep
    \/ MainRegister
    \/ MainLoopCheck
    \/ MainGenerate
    \/ MainSend
    \/ MainSendEnds
    \/ MainPace
    \/ MainReport
    \/ MainClose
    \/ Signal
    \/ CreateSteps
    \/ BatchReturns
    \/ ServiceSteps

Spec == Init /\ [][Next]_vars

\* A freshly constructed KinesisProducer in the hands of a direct caller.
ClientInit ==
    /\ InitCommon
    /\ SetupOff
    /\ NoCalls
    /\ NoGenerators
    /\ pc = "api"
    /\ num_transactions = 0
    /\ batch_size = 1

ClientNext ==
    \/ ApiVerify
    \/ ApiCreate
    \/ ApiCreateEnds
    \/ ApiPutRecordsBatch
    \/ ClientSteps
    \/ ServiceSteps

ClientSpec == ClientInit /\ [][ClientNext]_vars

\* The setup script calls create_kinesis_stream.  The script goes on running
\* (time.sleep returns), hence the fairness condition on its steps.
SetupInit ==
    /\ InitCommon
    /\ NoCalls
    /\ NoGenerators
    /\ pc = "setup"
    /\ num_transactions = 0
    /\ batch_size = 1
    /\ setupPc = "check"
    /\ attempt = 0
    /\ pollQueries = 0
    /\ setupResult = "none"

SetupSteps ==
    \/ SetupCheck
    \/ SetupCreate
    \/ SetupPoll
    \/ SetupGiveUp

SetupNext ==
    \/ SetupSteps
    \/ ServiceSteps

SetupSpec == SetupInit /\ [][SetupNext]_vars /\ WF_vars(SetupSteps)

\* A freshly constructed KinesisProducer in the hands of a user of put_record,
\* put_records_batch, get_metrics and reset_metrics.
MetricsInit ==
    /\ InitCommon
    /\ SetupOff
    /\ NoCalls
    /\ NoGenerators
    /\ pc = "metrics"
    /\ num_transactions = 0
    /\ batch_size = 1

MetricsNext ==
    \/ PutRecord
    \/ MetricsPutRecordsBatch
    \/ CallGetMetrics
    \/ CallResetMetrics
    \/ ModifySnapshot
    \/ BatchSteps
    \/ ServiceSteps

MetricsSpec == MetricsInit /\ [][MetricsNext]_vars

\* A freshly constructed KinesisProducer whose _handle_failed_records is called.
RetryInit ==
    /\ InitCommon
    /\ SetupOff
    /\ NoCalls
    /\ NoGenerators
    /\ pc = "retry"
    /\ num_transactions = 0
    /\ batch_size = 1

RetryNext ==
    \/ HandleFailedRecords
    \/ BatchSteps
    \/ ServiceSteps

RetrySpec == RetryInit /\ [][RetryNext]_vars

\* A process that has imported producer.data_generator and uses the class.
GenInit ==
    /\ InitCommon
    /\ streamStatus = "NOT_FOUND"
    /\ SetupOff
    /\ NoCalls
    /\ NoGenerators
    /\ pc = "gen"
    /\ num_transactions = 0
    /\ batch_size = 1

GenNext ==
    \/ Construct
    \/ CallGenerateTransaction
    \/ CallGenerateBatch
    \/ CallGetFraudStatistics

GenSpec == GenInit /\ [][GenNext]_vars

(***************************************************************************)
(* Claims.                                                                 *)
(***************************************************************************)

\* C1 (ClientSpec): the value put_records_batch returns reflects the outcome after
\* the retries.  For the first call on a fresh client, accepted is the number of the
\* call's records the service took, on the first attempt or on a resubmission: the
\* call returns successful = that number and failed = the rest, so successful = n and
\* failed = 0 when every rejected record was accepted on resubmission.
C1_ResultReflectsRetries ==
    (pc = "api" /\ apiCalls = 1 /\ batchResult.status = "returned")
        => /\ batchResult.successful = accepted
           /\ batchResult.failed = Len(transactions) - accepted

\* C2 (ClientSpec): one call of put_records_batch resubmits a bounded number of times; the bound
\* the client is configured with is max_retries.  The resubmissions of the
\* running call are the frames above the outermost one.
C2_BoundedResubmissions == Len(stack) - 1 <= max_retries

\* C3 (ClientSpec): when client.put_records raises, that activation of
\* put_records_batch adds len(records) to total_records_failed and changes no other
\* counter, makes no resubmission and no further request, and returns
\* {successful: 0, failed: n} to its caller instead of raising.
C3_PutRaises == stack # <<>> /\ Top.pc = "put" /\ accepted' = accepted
                /\ failures' = failures + 1
                /\ (stack' = <<>> \/ stack'[Len(stack)].outcome # "response")

C3_TransportFailure ==
    /\ [](\A i \in 1..Len(stack) :
            stack[i].outcome = "raised"
               => /\ i = Len(stack)
                  /\ stack[i].pc = "ret"
                  /\ stack[i].failed_records = <<>>
                  /\ stack[i].result = [successful |-> 0, failed |-> Len(stack[i].records)])
    /\ [][/\ C3_PutRaises
             => /\ Len(stack') = Len(stack)
                /\ stack'[Len(stack)].outcome = "raised"
                /\ batchResult' = batchResult
                /\ metrics' = [metrics EXCEPT
                                 !.total_records_failed = @ + Len(Top.records)]
          /\ (Len(stack) = 1 /\ Top.outcome = "raised" /\ stack' # stack)
             => batchResult' = [status |-> "returned", successful |-> 0,
                                failed |-> Len(Top.records)]]_vars

\* The outermost call's request raised and the call has returned {0, n}.
C3_Witness ==
    /\ pc = "api"
    /\ apiCalls = 1
    /\ stack = <<>>
    /\ Len(transactions) = 2
    /\ batchResult = [status |-> "returned", successful |-> 0, failed |-> 2]
    /\ metrics = [ZeroMetrics EXCEPT !.total_records_failed = 2]

\* C4 (Spec): the producer loop exits in every execution, whatever the service answers and
\* with no cancellation.  The loop's guard reads total_sent and the shutdown flag
\* only, and the service may repeat any answer, so the loop exits in every execution
\* exactly when no iteration can come back to the loop with total_sent unchanged
\* and the flag unset.
C4_EveryIterationProgresses ==
    [][(pc = "sending" /\ pc' = "pace")
          => (total_sent' > total_sent \/ shutdown_requested)]_vars

\* C5 (Spec), as stated: after a cancellation signal has reached the running producer, no
\* put_records_batch call is started.
C5_NoSendAfterSignal == sendsAfterSignal = 0

\* C5, amended: after a cancellation signal no new iteration of the loop begins.  At
\* most one put_records_batch call is started after it, by the iteration whose loop
\* check had passed before the signal; a call in progress runs to its end.
C5_AtMostOneSendAfterSignal ==
    /\ sendsAfterSignal <= 1
    /\ sendsAfterSignal = 1 => pc \notin {"generate", "send"}
    /\ (shutdown_requested /\ pc \in {"generate", "send"}) => sendsAfterSignal = 0

C5_Witness == sendsAfterSignal = 1 /\ pc = "done" /\ total_sent < num_transactions

C7_ReturnsOnlyWhenActive == cs = "returned" => streamStatus = "ACTIVE"

C9_VerifyOutcome ==
    lastVerify # NoVerify =>
        LET a == lastVerify.answer
            o == lastVerify.outcome
            notFound == a.kind = "ClientError" /\ a.code = "ResourceNotFoundException"
        IN  /\ (o.raised = None /\ o.value) <=> (a.kind = "status" /\ a.code = "ACTIVE")
            /\ notFound => (o.raised = None /\ ~o.value)
            /\ (a.kind # "status" /\ ~notFound) <=> o.raised # None
            /\ o.raised # None => o.raised = a.code

C9_Witness ==
    /\ lastVerify.answer = [kind |-> "ClientError", code |-> "ResourceNotFoundException"]
    /\ lastVerify.outcome = [raised |-> None, value |-> FALSE]

\* C10 (ClientSpec): calls of create_stream_if_not_exists in a row, none of which
\* raises, issue at most one CreateStream request.
C10_AtMostOneCreateRequest == ~createRaised => createRequests <= 1

\* C11 (SetupSpec): the wait for a newly created stream is bounded.  The loop of
\* create_kinesis_stream makes at most max_attempts describe_stream calls, the
\* function always ends, it returns True from the wait only for an ACTIVE stream,
\* and a wait that used up its attempts returns False.
C11_BoundedWait ==
    /\ [](pollQueries <= max_attempts)
    /\ [](attempt <= pollQueries)
    /\ []((setupPc = "done" /\ attempt = max_attempts) => setupResult = "False")
    /\ []((setupPc = "done" /\ pollQueries > 0 /\ setupResult = "True")
             => streamStatus = "ACTIVE")
    /\ (setupPc = "poll" ~> setupPc = "done")

\* The stream never reported ACTIVE: max_attempts queries, then False.
C11_Witness ==
    /\ setupPc = "done"
    /\ setupResult = "False"
    /\ pollQueries = max_attempts
    /\ streamStatus = "CREATING"

\* C12 (ClientSpec): put_records_batch on an empty list returns
\* {successful: 0, failed: 0}, makes no request to the service (the activation ends
\* with no outcome of a request) and leaves the four counters as they were.
C12_EmptyBatch ==
    /\ [](\A i \in 1..Len(stack) :
            stack[i].records = <<>>
               => /\ stack[i].pc = "ret"
                  /\ stack[i].outcome = None
                  /\ stack[i].result = [successful |-> 0, failed |-> 0])
    /\ [][(stack' # <<>> /\ stack'[Len(stack')].records = <<>>)
             => (metrics' = metrics /\ failures' = failures /\ accepted' = accepted)]_vars
    /\ [][(stack # <<>> /\ Top.records = <<>> /\ stack' # stack)
             => /\ stack' = <<>>
                /\ batchResult' = [status |-> "returned", successful |-> 0, failed |-> 0]
                /\ metrics' = metrics
                /\ failures' = failures
                /\ accepted' = accepted]_vars

\* A call on an empty list has returned {0, 0} to a client whose counters an
\* earlier call had moved.
C12_Witness ==
    /\ pc = "api"
    /\ apiCalls = 2
    /\ stack = <<>>
    /\ transactions = <<>>
    /\ batchResult = [status |-> "returned", successful |-> 0, failed |-> 0]
    /\ metrics.total_records_sent = 2

\* C13 (MetricsSpec): put_record never raises on a transport or service error: it
\* makes one request; on an error it returns False, adds 1 to total_records_failed
\* and changes no other counter; on success it returns True and adds 1 to
\* total_records_sent (and the record's bytes to total_bytes_sent).
C13_PutRecord ==
    [][(lastCall' = "put_record" /\ apiCalls' = apiCalls + 1)
          => /\ putResult'.status \in {"True", "False"}
             /\ putResult'.requests = 1
             /\ putResult'.status = "False"
                   => /\ metrics' = [metrics EXCEPT !.total_records_failed = @ + 1]
                      /\ accepted' = accepted
             /\ putResult'.status = "True"
                   => /\ metrics' = [metrics EXCEPT
                                       !.total_records_sent = @ + 1,
                                       !.total_bytes_sent = @ + Utf8Len(transactions'[1])]
                      /\ accepted' = accepted + 1]_vars

\* A put_record that succeeded, then one that failed.
C13_Witness ==
    /\ lastCall = "put_record"
    /\ apiCalls = 2
    /\ putResult = [status |-> "False", requests |-> 1]
    /\ metrics = [ZeroMetrics EXCEPT !.total_records_sent = 1,
                                     !.total_bytes_sent = 2,
                                     !.total_records_failed = 1]

\* C14 (MetricsSpec): what get_metrics returned is a copy.  The caller reads the
\* same values in it after any later put_record, put_records_batch or reset_metrics,
\* and writing into it leaves the client's counters as they were.
C14_SnapshotIsCopy ==
    /\ [][lastCall' \notin {"get_metrics", "modify"}
             => SnapshotValue' = SnapshotValue]_vars
    /\ [][(lastCall' = "modify" /\ apiCalls' = apiCalls + 1)
             => (metrics' = metrics /\ SnapshotValue'.total_records_sent = -1)]_vars

\* A snapshot taken after a send, and a later send that moved the counters.
C14_Witness ==
    /\ snapshot.taken
    /\ lastCall = "put_record"
    /\ snapshot.value = [ZeroMetrics EXCEPT !.total_records_sent = 1,
                                            !.total_bytes_sent = 1]
    /\ metrics.total_records_sent = 2

\* C15 (MetricsSpec): after reset_metrics the four counters are zero, whatever was
\* sent before.
C15_ResetZeroes == lastCall = "reset_metrics" => metrics = ZeroMetrics

\* reset_metrics after a put_record that succeeded and one that failed.
C15_Witness ==
    /\ lastCall = "reset_metrics"
    /\ apiCalls = 3
    /\ accepted = 1
    /\ putResult.status = "False"
    /\ metrics = ZeroMetrics

\* C16 (GenSpec): constructing a TransactionGenerator succeeds for every fraud_ratio
\* in [0, 1] with positive pool sizes, and then the pools have exactly those sizes;
\* for every fraud_ratio outside [0, 1] it raises ValueError.
C16_ConstructionOutcome ==
    genResult.op = "init" =>
        /\ (/\ ValidFraudRatio(genResult.fraud_ratio)
            /\ genResult.num_merchants > 0
            /\ genResult.num_customers > 0)
              => /\ genResult.raised = None
                 /\ Len(generators[genResult.gen].merchants) = genResult.num_merchants
                 /\ Len(generators[genResult.gen].customers) = genResult.num_customers
        /\ ~ValidFraudRatio(genResult.fraud_ratio) => genResult.raised = "ValueError"

\* C17 (GenSpec): two generators constructed with the same seed and the same
\* arguments produce the same output; their first generated transactions exist and
\* carry the same merchant_id and the same customer_id.
C17_SeedDeterminism ==
    \A i, j \in 1..Len(genLog) :
        (/\ genLog[i].seed # NoSeed
         /\ genLog[i].seed = genLog[j].seed
         /\ generators[i].fraud_ratio = generators[j].fraud_ratio
         /\ generators[i].num_merchants = generators[j].num_merchants
         /\ generators[i].num_customers = generators[j].num_customers
         /\ genLog[i].outcomes # <<>>
         /\ genLog[j].outcomes # <<>>)
           => LET a == genLog[i].outcomes[1]
                  b == genLog[j].outcomes[1]
              IN  /\ a.raised = None
                  /\ b.raised = None
                  /\ a.value.merchant_id = b.value.merchant_id
                  /\ a.value.customer_id = b.value.customer_id

\* C18 (GenSpec): generate_batch(n) returns exactly n transactions for every
\* n >= 0, each with all the required fields.
C18_BatchOfN ==
    (genResult.op = "generate_batch" /\ genResult.size >= 0)
        => /\ genResult.raised = None
           /\ Len(genResult.value) = genResult.size
           /\ \A k \in 1..Len(genResult.value) :
                RequiredFields \subseteq DOMAIN genResult.value[k]

\* C19, as stated: get_fraud_statistics returns the length of the list, the number
\* of its transactions with is_fraud true, the difference of the two, and
\* fraud_percentage = 100 * fraud_count / total exactly (0 for the empty list).
C19_ExactPercentage ==
    genResult.op = "get_fraud_statistics" =>
        LET ts    == genResult.list
            fraud == Cardinality({k \in 1..Len(ts) : ts[k].is_fraud})
            st    == genResult.stats
        IN  /\ st.total_transactions = Len(ts)
            /\ st.fraud_count = fraud
            /\ st.legitimate_count = Len(ts) - fraud
            /\ st.fraud_percentage * Len(ts) = 10000 * fraud
            /\ Len(ts) = 0 => st.fraud_percentage = 0

\* C19, amended: as above, with fraud_percentage the value of
\* 100 * fraud_count / total rounded to two decimals; the call changes neither a
\* generator nor the random generators.
C19_RoundedPercentage ==
    /\ [](genResult.op = "get_fraud_statistics" =>
            LET ts    == genResult.list
                fraud == Cardinality({k \in 1..Len(ts) : ts[k].is_fraud})
                st    == genResult.stats
                err   == st.fraud_percentage * Len(ts) - 10000 * fraud
            IN  /\ st.total_transactions = Len(ts)
                /\ st.fraud_count = fraud
                /\ st.legitimate_count = Len(ts) - fraud
                /\ 2 * err <= Len(ts)
                /\ 2 * err >= -Len(ts)
                /\ Len(ts) = 0 => st.fraud_percentage = 0)
    /\ [][(genResult'.op = "get_fraud_statistics" /\ apiCalls' = apiCalls + 1)
             => (generators' = generators /\ rng' = rng /\ genLog' = genLog)]_vars

\* One fraudulent transaction of three: 33.33.
C19_Witness ==
    /\ genResult.op = "get_fraud_statistics"
    /\ Len(genResult.list) = 3
    /\ genResult.stats = [total_transactions |-> 3, fraud_count |-> 1,
                          legitimate_count |-> 2, fraud_percentage |-> 3333]

\* C20 (GenSpec): constructing the generator with num_merchants <= 0 or
\* num_customers <= 0 fails, so no generator has an empty merchant or customer
\* pool.
C20_InvalidCountsRejected ==
    /\ (/\ genResult.op = "init"
        /\ ValidFraudRatio(genResult.fraud_ratio)
        /\ (genResult.num_merchants <= 0 \/ genResult.num_customers <= 0))
          => genResult.raised # None
    /\ \A g \in 1..Len(generators) :
         generators[g].merchants # <<>> /\ generators[g].customers # <<>>

\* C21 (Spec): every iteration of the producer loop generates exactly
\* min(batch_size, num_transactions - total_sent) transactions and goes on to send
\* them, and adds the successful count put_records_batch returned to total_sent;
\* total_sent never decreases and never exceeds num_transactions.
C21_LoopIteration ==
    /\ [](total_sent <= num_transactions)
    /\ [][total_sent' >= total_sent]_vars
    /\ [][(pc = "generate" /\ pc' # "generate")
             => /\ pc' = "send"
                /\ Len(transactions') =
                      CurrentBatchSize(batch_size, num_transactions, total_sent)]_vars
    /\ [][(pc = "sending" /\ pc' = "pace")
             => total_sent' = total_sent + batchResult.successful]_vars

\* C22 (RetrySpec): the list _handle_failed_records resubmits consists of the
\* original records at the indices whose response entry carries an ErrorCode, in
\* their order, and of nothing else: the j-th resubmitted record is the original
\* record at the j-th flagged index, also when records have the same content.  It
\* is resubmitted in one put_records_batch call, and no call is made when no entry
\* is flagged.
C22_RetryByIndex ==
    handled.called =>
        LET original == transactions
            flagged  == {k \in 1..Len(original) : handled.response[k]}
            resent   == handled.failed_records
        IN  /\ Len(resent) = Cardinality(flagged)
            /\ \A k \in flagged :
                  resent[Cardinality({m \in flagged : m <= k})] = original[k]
            /\ handled.resubmissions = (IF flagged = {} THEN 0 ELSE 1)
            /\ stack # <<>> => stack[1].records = resent

\* Two records of the same content, the second one rejected: that one record is
\* resubmitted, once.
C22_Witness ==
    /\ handled.called
    /\ transactions = <<"ascii", "ascii">>
    /\ handled.response = <<FALSE, TRUE>>
    /\ handled.failed_records = <<"ascii">>
    /\ handled.resubmissions = 1
    /\ stack # <<>>

C24_SentCountsAccepted ==
    /\ (metrics.total_records_sent = 0 /\ accepted = 0)
    /\ [](metrics.total_records_sent <= accepted)
    /\ [][IF lastCall' = "reset_metrics" /\ apiCalls' = apiCalls + 1
             THEN metrics'.total_records_sent = 0 /\ accepted' = accepted
             ELSE metrics'.total_records_sent - metrics.total_records_sent
                     = accepted' - accepted]_vars

\* put_record accepted, reset_metrics, then a one-record batch rejected on the first
\* attempt and accepted on the resubmission: one record sent since the reset, two
\* accepted since construction.
C24_Witness ==
    /\ pc = "metrics"
    /\ apiCalls = 3
    /\ lastCall = "put_records_batch"
    /\ batchResult = [status |-> "returned", successful |-> 0, failed |-> 1]
    /\ putResult.status = "True"
    /\ metrics.total_records_sent = 1
    /\ metrics.total_batches_sent = 2
    /\ accepted = 2

\* C25 (ClientSpec): after a put_records_batch call on n records has returned,
\* total_records_failed has grown by the number of those records the service never
\* accepted, and total_records_sent + total_records_failed by n.  For the first
\* call on a fresh client the counters are the growth, and accepted is the number
\* of the call's records the service took on the first attempt or on a
\* resubmission.
C25_FailedCountsLost ==
    (pc = "api" /\ apiCalls = 1 /\ batchResult.status = "returned")
        => /\ metrics.total_records_failed = Len(transactions) - accepted
           /\ metrics.total_records_sent + metrics.total_records_failed
                 = Len(transactions)

====
